---------------------------- MODULE Spec2Model ----------------------------
(***************************************************************************)
(* Model of app.py (dashboard-gestao): the CSV normalisation helpers, the  *)
(* memoised load_data and the module-level render script.                  *)
(*                                                                         *)
(* Text is a sequence of one-character strings.  An accented character is  *)
(* written as its base letter followed by a mark ("e^", "a~", "c,").      *)
(* A number is an exact decimal [neg, mant, exp] = (-1)^neg * mant/10^exp. *)
(* A pandas DataFrame is [cols, rows]: the column labels in order and the  *)
(* rows, each a sequence of cells aligned with cols.                       *)
(***************************************************************************)
EXTENDS Integers, Sequences, FiniteSets, TLC

VARIABLES
    numIn, numOut,          \* to_number: the Series given, the Series returned
    hdrIn, hdrOut,          \* detect_header_row: the file and arguments, the result
    junkIn, junkOut,        \* drop_junk_columns: the frame given, the frame returned
    stdIn, stdOut,          \* standardize_capex / standardize_fin: family+frame, outcome
    pctIn, pctOut,          \* avanco_obra column of the filtered frame, gauge and table
    disk,                   \* the four source files on disk (load_data run on its own)
    lpc, df_c2, df_c3, df_capex, df_fin, df_fluxo, errors, failed,
                            \* load_data: position, locals, and the sources whose try block raised
    files, clock,           \* render script: per source file [rows, mtime]; the file-system clock
    cache,                  \* st.cache_data entry of load_data(): <<>> or <<[value, at]>>, the
                            \* memoised return and the clock when it was computed
    pc, shown, filtro, steps
                            \* render script: position, the Dataset this render got from
                            \* load_data, the selectbox value, the steps executed so far

numVars  == <<numIn, numOut>>
hdrVars  == <<hdrIn, hdrOut>>
junkVars == <<junkIn, junkOut>>
stdVars  == <<stdIn, stdOut>>
pctVars  == <<pctIn, pctOut>>
loadVars == <<disk, lpc, df_c2, df_c3, df_capex, df_fin, df_fluxo, errors, failed>>
appVars  == <<files, clock, cache, pc, shown, filtro, steps>>
vars     == <<numVars, hdrVars, junkVars, stdVars, pctVars, loadVars, appVars>>

(***************************************************************************)
(* Bounds of the model.                                                    *)
(***************************************************************************)
MaxTextLen == 3      \* longest enumerated cell text given to to_number
MaxFileRows == 3     \* most rows of a file scanned by detect_header_row
MaxLabelLen == 2     \* longest enumerated column label given to drop_junk_columns
MaxColLen == 3       \* most rows of an avanco_obra column given to the gauge and the table
MaxClock == 1        \* most file modifications after program start

(***************************************************************************)
(* Characters and str methods.                                             *)
(***************************************************************************)
LowerLetters == <<"a","b","c","d","e","f","g","h","i","j","k","l","m",
                  "n","o","p","q","r","s","t","u","v","w","x","y","z">>
UpperLetters == <<"A","B","C","D","E","F","G","H","I","J","K","L","M",
                  "N","O","P","Q","R","S","T","U","V","W","X","Y","Z">>
Digits == {"0","1","2","3","4","5","6","7","8","9"}
Range(s) == {s[i] : i \in DOMAIN s}
IndexOf(c, s) == CHOOSE i \in DOMAIN s : s[i] = c

\* accented characters of the labels met in the exports, lower and upper case
LowerAccented == <<"a~", "c,", "e^">>
UpperAccented == <<"A~", "C,", "E^">>
AccentBase    == <<"a", "c", "e">>
CombiningMark == "#"

IsSpace(c) == c \in {" ", "\t", "\n"}
IsAsciiAlnum(c) == c \in Range(LowerLetters) \cup Range(UpperLetters) \cup Digits

\* str.lower() / str.upper(), one character
LowerChar(c) ==
    IF c \in Range(UpperLetters) THEN LowerLetters[IndexOf(c, UpperLetters)]
    ELSE IF c \in Range(UpperAccented) THEN LowerAccented[IndexOf(c, UpperAccented)]
    ELSE c
UpperChar(c) ==
    IF c \in Range(LowerLetters) THEN UpperLetters[IndexOf(c, LowerLetters)]
    ELSE IF c \in Range(LowerAccented) THEN UpperAccented[IndexOf(c, LowerAccented)]
    ELSE c
Lower(s) == [i \in DOMAIN s |-> LowerChar(s[i])]
Upper(s) == [i \in DOMAIN s |-> UpperChar(s[i])]

RECURSIVE LStrip(_)
LStrip(s) == IF s # <<>> /\ IsSpace(Head(s)) THEN LStrip(Tail(s)) ELSE s
RECURSIVE RStrip(_)
RStrip(s) == IF s # <<>> /\ IsSpace(s[Len(s)]) THEN RStrip(SubSeq(s, 1, Len(s) - 1)) ELSE s
\* str.strip()
Strip(s) == RStrip(LStrip(s))

\* str.startswith(prefix)
StartsWith(s, prefix) ==
    Len(s) >= Len(prefix) /\ SubSeq(s, 1, Len(prefix)) = prefix

\* unicodedata.normalize("NFKD", text): an accented character decomposes
\* into its base letter followed by a combining mark
RECURSIVE NFKD(_)
NFKD(s) ==
    IF s = <<>> THEN <<>>
    ELSE LET c == Head(s) IN
         (IF c \in Range(LowerAccented)
             THEN <<AccentBase[IndexOf(c, LowerAccented)], CombiningMark>>
          ELSE IF c \in Range(UpperAccented)
             THEN <<UpperChar(AccentBase[IndexOf(c, UpperAccented)]), CombiningMark>>
          ELSE <<c>>) \o NFKD(Tail(s))

NotCombining(c) == c # CombiningMark
IsLowerAlnum(c) == c \in Range(LowerLetters) \cup Digits

\* normalize_col
normalize_col(name) ==
    LET text1 == Strip(name)
        text2 == NFKD(text1)
        text3 == SelectSeq(text2, NotCombining)
        text4 == Lower(text3)
    IN  SelectSeq(text4, IsLowerAlnum)

(***************************************************************************)
(* Numbers and pd.to_numeric.                                              *)
(***************************************************************************)
NaN == [nan |-> TRUE]

RECURSIVE Reduce(_, _)
Reduce(m, e) == IF e > 0 /\ m % 10 = 0 THEN Reduce(m \div 10, e - 1) ELSE <<m, e>>
\* the decimal (-1)^neg * m / 10^e, in its one normal form
Num(neg, m, e) ==
    LET r == Reduce(m, e)
    IN  [neg |-> neg /\ r[1] # 0, mant |-> r[1], exp |-> r[2]]
Zero == Num(FALSE, 0, 0)

DigitVal(c) == CHOOSE d \in 0..9 : <<"0","1","2","3","4","5","6","7","8","9">>[d + 1] = c
RECURSIVE DigitsToNat(_)
DigitsToNat(s) ==
    IF s = <<>> THEN 0
    ELSE DigitsToNat(SubSeq(s, 1, Len(s) - 1)) * 10 + DigitVal(s[Len(s)])

IsDigit(c) == c \in Digits
IsDot(c) == c = "."
\* the float parser behind pd.to_numeric, on one string: an optional sign,
\* digits with at most one '.', at least one digit; anything else is NaN
ParseFloat(s) ==
    LET signed == s # <<>> /\ Head(s) \in {"-", "+"}
        body   == IF signed THEN Tail(s) ELSE s
        digs   == SelectSeq(body, IsDigit)
        dots   == SelectSeq(body, IsDot)
        dotAt  == IF dots = <<>> THEN Len(body) + 1 ELSE IndexOf(".", body)
    IN  IF /\ digs # <<>>
           /\ Len(dots) <= 1
           /\ Len(digs) + Len(dots) = Len(body)
        THEN Num(signed /\ Head(s) = "-", DigitsToNat(digs),
                 IF dots = <<>> THEN 0 ELSE Len(body) - dotAt)
        ELSE NaN

\* Series.str.replace(old, new, regex=False) for a one-character old
RECURSIVE ReplaceChar(_, _, _)
ReplaceChar(s, old, new) ==
    IF s = <<>> THEN <<>>
    ELSE (IF Head(s) = old THEN new ELSE <<Head(s)>>) \o ReplaceChar(Tail(s), old, new)

Contains(s, c) == \E i \in DOMAIN s : s[i] = c

\* to_number with the has_comma mask dropped: '.' removed from every cell
to_number_nomask(series) ==
    LET s1 == [i \in DOMAIN series |-> Strip(series[i])]
        s2 == [i \in DOMAIN series |-> ReplaceChar(s1[i], ".", <<>>)]
        s3 == [i \in DOMAIN series |-> ReplaceChar(s2[i], ",", <<".">>)]
        n  == [i \in DOMAIN series |-> ParseFloat(s3[i])]
    IN  [i \in DOMAIN series |-> IF n[i] = NaN THEN Zero ELSE n[i]]

\* to_number: a Series of text cells to a Series of numbers
to_number(series) ==
    LET s1 == [i \in DOMAIN series |-> Strip(series[i])]
        has_comma == [i \in DOMAIN series |-> Contains(s1[i], ",")]
        s2 == [i \in DOMAIN series |->
                 IF ~has_comma[i] THEN s1[i] ELSE ReplaceChar(s1[i], ".", <<>>)]
        s3 == [i \in DOMAIN series |-> ReplaceChar(s2[i], ",", <<".">>)]
        n  == [i \in DOMAIN series |-> ParseFloat(s3[i])]
    IN  [i \in DOMAIN series |-> IF n[i] = NaN THEN Zero ELSE n[i]]


(***************************************************************************)
(* detect_header_row.  A file is [opens, rows, fails]: whether open()      *)
(* succeeds, the rows csv.reader delivers, and whether the reader raises   *)
(* after delivering them instead of ending.                                *)
(***************************************************************************)
DefaultMarker == <<"U","F","V">>
DefaultMaxRows == 25

RowHasMarker(row, marker) ==
    \E k \in DOMAIN row : Upper(Strip(row[k])) = Upper(marker)

\* the for loop of detect_header_row from row index i on
RECURSIVE ScanRows(_, _, _, _)
ScanRows(file, marker, max_rows, i) ==
    IF i >= Len(file.rows) THEN 0                 \* loop ends, or reader raises: return 0
    ELSE IF i >= max_rows THEN 0                  \* break
    ELSE IF RowHasMarker(file.rows[i + 1], marker) THEN i
    ELSE ScanRows(file, marker, max_rows, i + 1)

\* the loop without its max_rows break
RECURSIVE ScanAllRows(_, _, _)
ScanAllRows(file, marker, i) ==
    IF i >= Len(file.rows) THEN 0
    ELSE IF RowHasMarker(file.rows[i + 1], marker) THEN i
    ELSE ScanAllRows(file, marker, i + 1)
detect_header_row_unbounded(file, marker, max_rows) ==
    IF ~file.opens THEN 0 ELSE ScanAllRows(file, marker, 0)

detect_header_row(file, marker, max_rows) ==
    IF ~file.opens THEN 0 ELSE ScanRows(file, marker, max_rows, 0)

(***************************************************************************)
(* DataFrames.                                                             *)
(***************************************************************************)
Str(t) == [str |-> t]
IsStr(cell) == "str" \in DOMAIN cell
EmptyFrame == [cols |-> <<>>, rows |-> <<>>]          \* pd.DataFrame()
IsEmpty(df) == Len(df.cols) = 0 \/ Len(df.rows) = 0   \* df.empty
HasCol(df, label) == \E j \in DOMAIN df.cols : df.cols[j] = label
Positions(df, label) == {j \in DOMAIN df.cols : df.cols[j] = label}
ColAt(df, j) == [r \in DOMAIN df.rows |-> df.rows[r][j]]
\* the frame made of the columns at the positions idx, in that order
TakeCols(df, idx) ==
    [cols |-> [k \in DOMAIN idx |-> df.cols[idx[k]]],
     rows |-> [r \in DOMAIN df.rows |-> [k \in DOMAIN idx |-> df.rows[r][idx[k]]]]]
Indices(n) == [j \in 1..n |-> j]

HasAsciiAlnum(name) == \E i \in DOMAIN name : IsAsciiAlnum(name[i])
HasAsciiLetter(name) ==
    \E i \in DOMAIN name : name[i] \in Range(LowerLetters) \cup Range(UpperLetters)
UnnamedPrefix == <<"u","n","n","a","m","e","d">>

\* the loop body of drop_junk_columns with the regex [A-Za-z] in place of [A-Za-z0-9]
IsJunkLettersOnly(col) ==
    LET name == Strip(col)
    IN  \/ name = <<>>
        \/ StartsWith(Lower(name), UnnamedPrefix)
        \/ ~HasAsciiLetter(name)

\* the loop body of drop_junk_columns: whether col goes to drop_cols
IsJunk(col) ==
    LET name == Strip(col)
    IN  \/ name = <<>>
        \/ StartsWith(Lower(name), UnnamedPrefix)
        \/ ~HasAsciiAlnum(name)

drop_junk_columns(df) ==
    LET drop_cols == {df.cols[j] : j \in {k \in DOMAIN df.cols : IsJunk(df.cols[k])}}
    IN  TakeCols(df, SelectSeq(Indices(Len(df.cols)), LAMBDA j : df.cols[j] \notin drop_cols))


(***************************************************************************)
(* Column maps: <<canonical key, canonical field>> pairs.                  *)
(***************************************************************************)
CAPEX_COL_MAP == <<
    <<<<"u","f","v">>,
      <<"u","f","v">>>>,
    <<<<"n","a","t","u","r","e","z","a">>,
      <<"n","a","t","u","r","e","z","a">>>>,
    <<<<"f","o","r","n","e","c","e","d","o","r">>,
      <<"f","o","r","n","e","c","e","d","o","r">>>>,
    <<<<"c","o","n","t","r","a","t","o","o","r","i","g","i","n","a","l">>,
      <<"c","o","n","t","r","a","t","o","_","o","r","i","g","i","n","a","l">>>>,
    <<<<"v","a","l","o","r","t","o","t","a","l">>,
      <<"v","a","l","o","r","_","t","o","t","a","l">>>>,
    <<<<"f","d","m","e","d","i","d","o">>,
      <<"f","d","_","m","e","d","i","d","o">>>>,
    <<<<"m","e","d","i","c","a","o">>,
      <<"m","e","d","i","c","a","o">>>>,
    <<<<"f","d","m","e","d","i","c","a","o">>,
      <<"f","d","_","m","e","d","i","c","a","o">>>>,
    <<<<"s","a","l","d","o","a","m","e","d","i","r">>,
      <<"s","a","l","d","o","_","a","_","m","e","d","i","r">>>>,
    <<<<"a","v","a","n","c","o","c","o","n","t","r","a","t","u","a","l">>,
      <<"a","v","a","n","c","o","_","c","o","n","t","r","a","t","u","a","l">>>>,
    <<<<"a","v","a","n","c","o","o","b","r","a">>,
      <<"a","v","a","n","c","o","_","o","b","r","a">>>>,
    <<<<"p","o","r","t","f","o","l","i","o">>,
      <<"p","o","r","t","f","o","l","i","o">>>>,
    <<<<"p","o","r","t","i","f","o","l","i","o">>,
      <<"p","o","r","t","f","o","l","i","o">>>> >>

FIN_COL_MAP == <<
    <<<<"u","s","i","n","a","f","i","l","i","a","l">>,
      <<"u","f","v","_","p","a","g">>>>,
    <<<<"u","s","i","n","a">>,
      <<"u","f","v","_","p","a","g">>>>,
    <<<<"f","i","l","i","a","l">>,
      <<"u","f","v","_","p","a","g">>>>,
    <<<<"v","a","l","o","r","d","a","n","f">>,
      <<"v","a","l","o","r","_","n","f">>>>,
    <<<<"f","o","r","n","e","c","e","d","o","r">>,
      <<"f","o","r","n","e","c","e","d","o","r","_","p","a","g">>>>,
    <<<<"s","t","a","t","u","s","d","o","l","a","n","c","a","m","e","n","t","o">>,
      <<"s","t","a","t","u","s","_","p","a","g">>>>,
    <<<<"d","a","t","a","e","m","i","s","s","a","o","n","f">>,
      <<"d","a","t","a","_","e","m","i","s","s","a","o","_","n","f">>>>,
    <<<<"n","o","d","a","n","f">>,
      <<"n","u","m","e","r","o","_","n","f">>>> >>

InMap(map, key) == \E k \in DOMAIN map : map[k][1] = key
MapGet(map, key) == map[CHOOSE k \in DOMAIN map : map[k][1] = key][2]

\* the rename dict built by the loop over df.columns, applied by df.rename
RenameCols(df, map) ==
    [df EXCEPT !.cols = [j \in DOMAIN df.cols |->
        LET key == normalize_col(df.cols[j])
        IN  IF InMap(map, key) THEN MapGet(map, key) ELSE df.cols[j]]]

(***************************************************************************)
(* Decimal arithmetic.                                                     *)
(***************************************************************************)
RECURSIVE Pow10(_)
Pow10(n) == IF n = 0 THEN 1 ELSE 10 * Pow10(n - 1)
Max(a, b) == IF a >= b THEN a ELSE b
Scaled(a, e) == (IF a.neg THEN 0 - a.mant ELSE a.mant) * Pow10(e - a.exp)
Add(a, b) ==
    LET e == Max(a.exp, b.exp)
        v == Scaled(a, e) + Scaled(b, e)
    IN  Num(v < 0, IF v < 0 THEN 0 - v ELSE v, e)
LessEq(a, b) == LET e == Max(a.exp, b.exp) IN Scaled(a, e) <= Scaled(b, e)
Times100(a) == Num(a.neg, a.mant * 100, a.exp)

(***************************************************************************)
(* standardize_capex, standardize_fin.  The result is [raised, df]:        *)
(* raised when the body raises (df then has no meaning).                   *)
(***************************************************************************)
NumericCols == <<
    <<"c","o","n","t","r","a","t","o","_","o","r","i","g","i","n","a","l">>,
    <<"v","a","l","o","r","_","t","o","t","a","l">>,
    <<"f","d","_","m","e","d","i","d","o">>,
    <<"m","e","d","i","c","a","o">>,
    <<"f","d","_","m","e","d","i","c","a","o">>,
    <<"s","a","l","d","o","_","a","_","m","e","d","i","r">>,
    <<"a","v","a","n","c","o","_","c","o","n","t","r","a","t","u","a","l">>,
    <<"a","v","a","n","c","o","_","o","b","r","a">> >>
L_fd_medicao == <<"f","d","_","m","e","d","i","c","a","o">>
L_fd_medido == <<"f","d","_","m","e","d","i","d","o">>
L_medicao == <<"m","e","d","i","c","a","o">>
L_ufv == <<"u","f","v">>
L_valor_nf == <<"v","a","l","o","r","_","n","f">>
L_ufv_pag == <<"u","f","v","_","p","a","g">>
L_ciclo == <<"c","i","c","l","o">>
L_mes == <<"m","e","s">>
L_valor == <<"v","a","l","o","r">>
L_avanco_obra == <<"a","v","a","n","c","o","_","o","b","r","a">>
NanText == <<"n","a","n">>

\* Series.astype(str), one cell
AsTypeStr(cell) == IF IsStr(cell) THEN cell.str ELSE NanText

\* df[label] when label names exactly one column: a Series
Series(df, label) == ColAt(df, CHOOSE j \in DOMAIN df.cols : df.cols[j] = label)
\* df[label] is a DataFrame, which has no .str accessor, when label names several columns
IsAmbiguous(df, label) == Cardinality(Positions(df, label)) > 1

\* df[label] = values: replaces the one column so named, or appends a new one
SetCol(df, label, values) ==
    IF HasCol(df, label)
    THEN [df EXCEPT !.rows = [r \in DOMAIN df.rows |->
            [j \in DOMAIN df.cols |-> IF df.cols[j] = label THEN values[r] ELSE df.rows[r][j]]]]
    ELSE [cols |-> Append(df.cols, label),
          rows |-> [r \in DOMAIN df.rows |-> Append(df.rows[r], values[r])]]

\* df[label] = to_number(df[label]) for every label of labels that is a column
RECURSIVE CoerceCols(_, _)
CoerceCols(df, labels) ==
    IF labels = <<>> THEN df
    ELSE LET col == Head(labels)
             d == IF HasCol(df, col)
                  THEN SetCol(df, col,
                         to_number([r \in DOMAIN df.rows |-> AsTypeStr(Series(df, col)[r])]))
                  ELSE df
         IN  CoerceCols(d, Tail(labels))

\* df[label].astype(str).str.strip().str.upper()
UpperStripped(df, label) ==
    [r \in DOMAIN df.rows |-> Str(Upper(Strip(AsTypeStr(Series(df, label)[r]))))]

\* df.get("fd_medido", 0) + df.get("medicao", 0)
MeasuredSum(df) ==
    [r \in DOMAIN df.rows |->
        Add(IF HasCol(df, L_fd_medido) THEN Series(df, L_fd_medido)[r] ELSE Zero,
            IF HasCol(df, L_medicao) THEN Series(df, L_medicao)[r] ELSE Zero)]

Raised == [raised |-> TRUE, df |-> EmptyFrame]
Returned(df) == [raised |-> FALSE, df |-> df]

\* lines 127-130, on the frame d that has its fd_medicao column
CapexIdentifier(d) ==
    IF ~HasCol(d, L_ufv) THEN Returned(d)
    ELSE IF IsAmbiguous(d, L_ufv) THEN Raised
    ELSE Returned(SetCol(d, L_ufv, UpperStripped(d, L_ufv)))
\* lines 124-125, on the frame d whose numeric columns are coerced
CapexMeasured(d) ==
    CapexIdentifier(IF ~HasCol(d, L_fd_medicao)
                    THEN SetCol(d, L_fd_medicao, MeasuredSum(d)) ELSE d)
\* lines 111-122, on the renamed frame d
CapexNumeric(d) ==
    IF \E k \in DOMAIN NumericCols : IsAmbiguous(d, NumericCols[k])
    THEN Raised                                        \* to_number(DataFrame): no .str
    ELSE CapexMeasured(CoerceCols(d, NumericCols))

standardize_capex(df) ==
    CapexNumeric(RenameCols(drop_junk_columns(df), CAPEX_COL_MAP))

\* lines 143-146, on the frame d whose valor_nf column is coerced
FinIdentifier(d) ==
    IF ~HasCol(d, L_ufv_pag) THEN Returned(d)
    ELSE IF IsAmbiguous(d, L_ufv_pag) THEN Raised
    ELSE Returned(SetCol(d, L_ufv_pag, UpperStripped(d, L_ufv_pag)))
\* lines 141-142, on the renamed frame d
FinNumeric(d) ==
    IF IsAmbiguous(d, L_valor_nf) THEN Raised
    ELSE FinIdentifier(CoerceCols(d, <<L_valor_nf>>))

standardize_fin(df) == FinNumeric(RenameCols(df, FIN_COL_MAP))

(***************************************************************************)
(* normalize_fluxo.                                                        *)
(***************************************************************************)
MonthPrefixes == {<<"m","e","s">>, <<"m","e^","s">>}
IsMonthCol(label) ==
    \E p \in MonthPrefixes : StartsWith(Lower(Strip(label)), p)

RECURSIVE Flatten(_)
Flatten(ss) == IF ss = <<>> THEN <<>> ELSE Head(ss) \o Flatten(Tail(ss))

\* df.melt(id_vars=base_cols, value_vars=month_cols, var_name="mes", value_name="valor")
\* followed by df_long["valor"] = to_number(df_long["valor"])
Melt(df, base, months) ==
    [cols |-> [k \in DOMAIN base |-> df.cols[base[k]]] \o <<L_mes, L_valor>>,
     rows |-> Flatten([m \in DOMAIN months |->
                [r \in DOMAIN df.rows |->
                    [k \in DOMAIN base |-> df.rows[r][base[k]]]
                    \o <<Str(df.cols[months[m]]),
                         to_number(<<AsTypeStr(df.rows[r][months[m]])>>)[1]>>]])]

normalize_fluxo(df) ==
    IF IsEmpty(df) THEN df
    ELSE LET all == Indices(Len(df.cols))
             month_cols == SelectSeq(all, LAMBDA j : IsMonthCol(df.cols[j]))
             base_cols == SelectSeq(all, LAMBDA j : ~IsMonthCol(df.cols[j]))
         IN  IF month_cols = <<>> THEN EmptyFrame ELSE Melt(df, base_cols, month_cols)

(***************************************************************************)
(* pct_from_series and the detail table's avanco_obra lambda.  A mean is   *)
(* the exact quotient [num, den] = num / den.                              *)
(***************************************************************************)
Threshold == Num(FALSE, 15, 1)          \* 1.5
Quotient(num, den) == [num |-> num, den |-> den]

RECURSIVE SumSeq(_)
SumSeq(s) == IF s = <<>> THEN Zero ELSE Add(Head(s), SumSeq(Tail(s)))
NotNaN(cell) == cell # NaN

pct_from_series(series) ==
    IF series = <<>> THEN Quotient(Zero, 1)
    ELSE LET s == SelectSeq(series, NotNaN)
         IN  IF s = <<>> THEN Quotient(Zero, 1)
             ELSE LET max_v == CHOOSE v \in Range(s) : \A w \in Range(s) : LessEq(w, v)
                      total == SumSeq(s)
                  IN  IF LessEq(max_v, Threshold)
                      THEN Quotient(Times100(total), Len(s))
                      ELSE Quotient(total, Len(s))

\* lambda x: x * 100 if x <= 1.5 else x   (NaN <= 1.5 is False)
ScaleRow(x) == IF x # NaN /\ LessEq(x, Threshold) THEN Times100(x) ELSE x

\* df_table["avanco_obra"].apply(lambda ...)
table_avanco(series) == [r \in DOMAIN series |-> ScaleRow(series[r])]


(***************************************************************************)
(* pd.read_csv(path, header=h, engine="python") and read_csv_guess_header. *)
(* A file on disk is [exists, opens, rows, fails].                         *)
(***************************************************************************)
Missing == [exists |-> FALSE, opens |-> FALSE, rows |-> <<>>, fails |-> FALSE]
OnDisk(opens, rows, fails) == [exists |-> TRUE, opens |-> opens, rows |-> rows, fails |-> fails]

DigitChar(n) == <<"0","1","2","3","4","5","6","7","8","9">>[n + 1]
UnnamedLabel == <<"U","n","n","a","m","e","d",":"," ">>
\* skip_blank_lines: a line with no field, or with one field of whitespace only
IsBlankLine(row) == Len(row) = 0 \/ (Len(row) = 1 /\ Strip(row[1]) = <<>>)
IsDataLine(row) == ~IsBlankLine(row)
\* the label pandas gives header cell j: "Unnamed: j" for an empty cell,
\* "x.n" for the n-th repetition of label x
HeaderLabel(head, j) ==
    LET earlier == Cardinality({k \in 1..(j - 1) : head[k] = head[j]})
    IN  IF head[j] = <<>> THEN UnnamedLabel \o <<DigitChar(j - 1)>>
        ELSE IF earlier > 0 THEN head[j] \o <<".", DigitChar(earlier)>>
        ELSE head[j]

read_csv(file, header) ==
    IF ~file.opens \/ file.fails THEN Raised
    ELSE LET lines == SelectSeq(file.rows, IsDataLine)
         IN  IF header >= Len(lines) THEN Raised
             ELSE LET head == lines[header + 1]
                      data == SubSeq(lines, header + 2, Len(lines))
                  IN  IF \E r \in DOMAIN data : Len(data[r]) > Len(head) THEN Raised
                      ELSE Returned(
                        [cols |-> [j \in DOMAIN head |-> HeaderLabel(head, j)],
                         rows |-> [r \in DOMAIN data |-> [j \in DOMAIN head |->
                                     IF j <= Len(data[r]) /\ data[r][j] # <<>>
                                     THEN Str(data[r][j]) ELSE NaN]]])

read_csv_guess_header(file) ==
    read_csv(file, detect_header_row(file, DefaultMarker, DefaultMaxRows))

(***************************************************************************)
(* load_data.  An error message is [file, text].                           *)
(***************************************************************************)
DATA_FILES == [ciclo2 |-> "Ciclo2.csv", ciclo3 |-> "Ciclo3.csv",
               fluxo |-> "Fluxo.csv", geral |-> "Geral.csv"]
Sources == {"ciclo2", "ciclo3", "fluxo", "geral"}
ReadError(src) == [file |-> DATA_FILES[src], text |-> "Erro ao ler"]
NotFound(src) == [file |-> DATA_FILES[src], text |-> "nao encontrado"]
Tag(df, cycle) == SetCol(df, L_ciclo, [r \in DOMAIN df.rows |-> Str(cycle)])
Cycle2 == <<"C","i","c","l","o"," ","2">>
Cycle3 == <<"C","i","c","l","o"," ","3">>

\* what one block of load_data leaves: the table, the messages it appended,
\* whether its try block raised
Block(df, msgs, raised) == [df |-> df, errors |-> msgs, raised |-> raised]

\* lines 200-202 / 210-212: standardize_capex raising leaves the tagged raw frame
CycleStandardized(tagged, std, src) ==
    IF std.raised THEN Block(tagged, <<ReadError(src)>>, TRUE)
    ELSE Block(std.df, <<>>, FALSE)
CycleTagged(tagged, src) == CycleStandardized(tagged, standardize_capex(tagged), src)
\* lines 198-199 / 208-209
CycleRead(read, src, cycle) ==
    IF read.raised THEN Block(EmptyFrame, <<ReadError(src)>>, TRUE)
    ELSE CycleTagged(Tag(read.df, cycle), src)
\* one capex block of load_data (lines 196-204, 206-214)
LoadCycle(file, src, cycle) ==
    IF file.exists THEN CycleRead(read_csv_guess_header(file), src, cycle)
    ELSE Block(EmptyFrame, <<NotFound(src)>>, FALSE)

\* lines 223-225: standardize_fin raising leaves the raw frame
GeralStandardized(raw, std) ==
    IF std.raised THEN Block(raw, <<ReadError("geral")>>, TRUE)
    ELSE Block(std.df, <<>>, FALSE)
\* line 222
GeralRead(read) ==
    IF read.raised THEN Block(EmptyFrame, <<ReadError("geral")>>, TRUE)
    ELSE GeralStandardized(read.df, standardize_fin(read.df))
\* the "Financeiro" block (lines 219-225)
LoadGeral(file) ==
    IF file.exists THEN GeralRead(read_csv(file, 0))
    ELSE Block(EmptyFrame, <<>>, FALSE)

\* lines 231-234
FluxoRead(read) ==
    IF read.raised THEN Block(EmptyFrame, <<ReadError("fluxo")>>, TRUE)
    ELSE Block(normalize_fluxo(read.df), <<>>, FALSE)
\* the "Fluxo" block (lines 228-234)
LoadFluxo(file) ==
    IF file.exists THEN FluxoRead(read_csv(file, 0))
    ELSE Block(EmptyFrame, <<>>, FALSE)

\* pd.concat([a, b], ignore_index=True): the columns of a, then those of b that a
\* lacks; a frame is reindexed onto them unless its columns are exactly those,
\* and reindexing a frame with a repeated label raises InvalidIndexError
HasRepeatedLabel(df) == \E j, k \in DOMAIN df.cols : j # k /\ df.cols[j] = df.cols[k]
UnionCols(a, b) == a.cols \o SelectSeq(b.cols, LAMBDA l : ~HasCol(a, l))
Reindexed(df, cols) ==
    IF df.cols = cols THEN df.rows
    ELSE [r \in DOMAIN df.rows |-> [t \in DOMAIN cols |->
            IF HasCol(df, cols[t]) THEN Series(df, cols[t])[r] ELSE NaN]]
Concat(a, b) ==
    LET cols == UnionCols(a, b)
    IN  IF \E f \in {a, b} : HasRepeatedLabel(f) /\ f.cols # cols THEN Raised
        ELSE Returned([cols |-> cols, rows |-> Reindexed(a, cols) \o Reindexed(b, cols)])

\* line 216: [raised, df]
AssembleCapex(c2, c3) ==
    IF ~IsEmpty(c2) \/ ~IsEmpty(c3) THEN Concat(c2, c3) ELSE Returned(EmptyFrame)

\* line 236, from the four blocks and the assembled capex frame
LoadReturn(c2, c3, capex, fin, fluxo) ==
    IF capex.raised THEN [raised |-> TRUE]
    ELSE [raised |-> FALSE, df_capex |-> capex.df, df_fin |-> fin.df, df_fluxo |-> fluxo.df,
          errors |-> c2.errors \o c3.errors \o fin.errors \o fluxo.errors]
LoadBlocks(c2, c3, fin, fluxo) ==
    LoadReturn(c2, c3, AssembleCapex(c2.df, c3.df), fin, fluxo)
\* load_data() on a file system fs: [raised] when the call raises, else the
\* returned tuple [raised, df_capex, df_fin, df_fluxo, errors]
load_data(fs) ==
    LoadBlocks(LoadCycle(fs.ciclo2, "ciclo2", Cycle2), LoadCycle(fs.ciclo3, "ciclo3", Cycle3),
               LoadGeral(fs.geral), LoadFluxo(fs.fluxo))

(***************************************************************************)
(* Each helper is exercised by a specification of its own: Init draws the  *)
(* arguments, the one action calls the helper.  The variables of the other *)
(* specifications stay at their Off values.                                *)
(***************************************************************************)
NumOff  == numIn = <<>> /\ numOut = <<>>
HdrOff  == hdrIn = <<>> /\ hdrOut = <<>>
JunkOff == junkIn = <<>> /\ junkOut = <<>>
StdOff  == stdIn = <<>> /\ stdOut = <<>>
PctOff  == pctIn = <<>> /\ pctOut = <<>>
LoadOff == /\ disk = <<>> /\ lpc = "off" /\ errors = <<>> /\ failed = {}
           /\ df_c2 = EmptyFrame /\ df_c3 = EmptyFrame /\ df_capex = EmptyFrame
           /\ df_fin = EmptyFrame /\ df_fluxo = EmptyFrame
AppOff  == /\ files = <<>> /\ clock = 0 /\ cache = <<>>
           /\ pc = "off" /\ shown = <<>> /\ filtro = <<>> /\ steps = <<>>

Texts(alphabet, n) == UNION {[1..k -> alphabet] : k \in 0..n}

(************************** to_number ***************************************)
NumAlphabet == {"0", "1", ".", ",", " ", "-", "a"}
Ex_1_234_56 == <<"1",".","2","3","4",",","5","6">>
Ex_1234_5 == <<"1","2","3","4",",","5">>
Ex_abc == <<"a","b","c">>
Ex_1234_56 == <<"1","2","3","4",".","5","6">>
NumExamples == {Ex_1_234_56, Ex_1234_5, <<>>, Ex_abc, Ex_1234_56}
NumTexts == Texts(NumAlphabet, MaxTextLen) \cup NumExamples

NumInit ==
    /\ numIn \in {<<t>> : t \in NumTexts} \cup {<<e, t>> : e \in NumExamples, t \in NumTexts}
    /\ numOut = <<>>
    /\ HdrOff /\ JunkOff /\ StdOff /\ PctOff /\ LoadOff /\ AppOff
CallToNumber ==
    /\ numOut = <<>>
    /\ numOut' = to_number(numIn)
    /\ UNCHANGED <<numIn, hdrVars, junkVars, stdVars, pctVars, loadVars, appVars>>
NumNext == CallToNumber
SpecNum == NumInit /\ [][NumNext]_vars

\* the value of a text under the '.'-is-thousands rule: trim, drop every '.',
\* turn ',' into '.', parse, 0 when that does not parse
IsNotDot(c) == c # "."
CommaToDot(c) == IF c = "," THEN "." ELSE c
OrZero(n) == IF n = NaN THEN Zero ELSE n
ThousandsValue(text) ==
    LET t == SelectSeq(Strip(text), IsNotDot)
    IN  OrZero(ParseFloat([i \in DOMAIN t |-> CommaToDot(t[i])]))
\* the value of a text read as it stands after trimming
PlainValue(text) == OrZero(ParseFloat(Strip(text)))

\* C7 (as stated): to_number applies the thousands-separator rule to every cell,
\* with or without a decimal comma; in particular "1234.56" gives 123456.
C7_RuleOnEveryCell ==
    numOut # <<>> =>
        /\ \A i \in DOMAIN numIn : numOut[i] = ThousandsValue(numIn[i])
        /\ \A i \in DOMAIN numIn : numIn[i] = Ex_1234_56 => numOut[i] = Num(FALSE, 123456, 0)

\* C7 (amended): to_number removes the '.' characters only from a cell that
\* contains a ',': such a cell gets the thousands-rule value, any other cell is
\* parsed as it stands after trimming, and a text that does not parse gives 0.
\* "1.234,56" gives 1234.56, "1234,5" gives 1234.5, "" and "abc" give 0 and
\* "1234.56" gives 1234.56.
C7_RuleOnlyWithComma ==
    numOut # <<>> =>
        /\ Len(numOut) = Len(numIn)
        /\ \A i \in DOMAIN numIn :
            /\ numOut[i] # NaN
            /\ numOut[i] = IF Contains(numIn[i], ",") THEN ThousandsValue(numIn[i])
                           ELSE PlainValue(numIn[i])
            /\ numIn[i] = Ex_1_234_56 => numOut[i] = Num(FALSE, 123456, 2)
            /\ numIn[i] = Ex_1234_5 => numOut[i] = Num(FALSE, 12345, 1)
            /\ numIn[i] \in {<<>>, Ex_abc} => numOut[i] = Zero
            /\ numIn[i] = Ex_1234_56 => numOut[i] = Num(FALSE, 123456, 2)

\* a call on a Series holding "1234.56" beside a cell that has both '.' and ','
C7_Witness ==
    /\ numOut # <<>>
    /\ Len(numIn) > 1
    /\ numIn[1] = Ex_1234_56 /\ numOut[1] = Num(FALSE, 123456, 2)
    /\ Contains(numIn[2], ",") /\ Contains(numIn[2], ".") /\ numOut[2] # Zero

(************************** detect_header_row *******************************)
HdrRows == { <<>>,
             <<<<"T","i","t","u","l","o">>>>,
             <<<<"U","F","V">>, <<"V","a","l","o","r">>>>,
             <<<<"x">>, <<" ","u","f","v"," ">>>>,
             <<<<"U","F","V","S">>>>,
             <<<<"U"," ","F"," ","V">>>> }
HdrRowSeqs == UNION {[1..k -> HdrRows] : k \in 0..MaxFileRows}
HdrMarkers == {DefaultMarker, <<"u","f","v">>}

HdrInit ==
    /\ hdrIn \in [file : [opens : BOOLEAN, rows : HdrRowSeqs, fails : BOOLEAN],
                  marker : HdrMarkers,
                  max_rows : (0..MaxFileRows) \cup {DefaultMaxRows}]
    /\ hdrOut = <<>>
    /\ NumOff /\ JunkOff /\ StdOff /\ PctOff /\ LoadOff /\ AppOff
CallDetectHeaderRow ==
    /\ hdrOut = <<>>
    /\ hdrOut' = <<detect_header_row(hdrIn.file, hdrIn.marker, hdrIn.max_rows)>>
    /\ UNCHANGED <<hdrIn, numVars, junkVars, stdVars, pctVars, loadVars, appVars>>
HdrNext == CallDetectHeaderRow
SpecHdr == HdrInit /\ [][HdrNext]_vars

\* the indices, among the first max_rows rows read, of the rows holding the marker
MarkerRows(in) ==
    {i \in 0..(Len(in.file.rows) - 1) :
        /\ i < in.max_rows
        /\ \E k \in DOMAIN in.file.rows[i + 1] :
               Upper(Strip(in.file.rows[i + 1][k])) = Upper(in.marker)}

\* C8: detect_header_row returns the zero-based index of the first of the first
\* max_rows rows with a cell equal to the marker after trimming, ignoring case;
\* it returns 0 when there is none (also when the marker only occurs from row
\* max_rows on) and when the file cannot be read; it always returns.
C8_FirstMarkerRowOrZero ==
    hdrOut # <<>> =>
        /\ hdrOut[1] \in Nat
        /\ IF hdrIn.file.opens /\ MarkerRows(hdrIn) # {}
           THEN hdrOut[1] \in MarkerRows(hdrIn) /\ \A h \in MarkerRows(hdrIn) : hdrOut[1] <= h
           ELSE hdrOut[1] = 0

\* the marker is found, after trimming and ignoring case, below a title row,
\* in a file that also holds it in a later row
C8_Witness ==
    /\ hdrOut = <<1>>
    /\ hdrIn.max_rows = DefaultMaxRows
    /\ hdrIn.file.rows[2] = <<<<"x">>, <<" ","u","f","v"," ">>>>
    /\ Cardinality(MarkerRows(hdrIn)) > 1


(************************** drop_junk_columns *******************************)
JunkAlphabet == {"a", "7", " ", "-", "e^"}
Ex_Unnamed7 == <<"U","n","n","a","m","e","d",":"," ","7">>
Ex_Dashes == <<"-","-","-">>
Ex_Obs1 == <<"O","b","s",".","1">>
JunkExamples == {<<>>, Ex_Unnamed7, Ex_Dashes, Ex_Obs1, <<" ","U","N","N","A","M","E","D","_","a">>}
JunkLabels == Texts(JunkAlphabet, MaxLabelLen) \cup JunkExamples
Cell1 == Str(<<"v","1">>)
Cell2 == Str(<<"v","2">>)

JunkInit ==
    /\ junkIn \in {[cols |-> <<l>>, rows |-> <<<<Cell1>>>>] : l \in JunkLabels}
             \cup {[cols |-> <<l[1], l[2]>>, rows |-> <<<<Cell1, Cell2>>>>] :
                      l \in {m \in JunkLabels \X JunkLabels : m[1] # m[2]}}
    /\ junkOut = <<>>
    /\ NumOff /\ HdrOff /\ StdOff /\ PctOff /\ LoadOff /\ AppOff
CallDropJunkColumns ==
    /\ junkOut = <<>>
    /\ junkOut' = <<drop_junk_columns(junkIn)>>
    /\ UNCHANGED <<junkIn, numVars, hdrVars, stdVars, pctVars, loadVars, appVars>>
JunkNext == CallDropJunkColumns
SpecJunk == JunkInit /\ [][JunkNext]_vars

\* column j of frame in is a column of frame out, label and values unchanged
KeptIn(in, out, j) ==
    \E k \in DOMAIN out.cols : out.cols[k] = in.cols[j] /\ ColAt(out, k) = ColAt(in, j)

\* C9 (as stated): drop_junk_columns keeps, under its unchanged label, every
\* column whose label contains at least one alphanumeric character.
C9_KeepsEveryAlnumLabel ==
    junkOut # <<>> =>
        \A j \in DOMAIN junkIn.cols :
            HasAsciiAlnum(junkIn.cols[j]) => KeptIn(junkIn, junkOut[1], j)

\* C9 (amended): drop_junk_columns keeps, under its unchanged label and with its
\* values, every column whose label contains at least one ASCII letter or digit
\* and does not begin, after trimming and ignoring case, with "unnamed".
C9_KeepsAlnumNotUnnamed ==
    junkOut # <<>> =>
        \A j \in DOMAIN junkIn.cols :
            (/\ HasAsciiAlnum(junkIn.cols[j])
             /\ ~StartsWith(Lower(Strip(junkIn.cols[j])), UnnamedPrefix))
            => KeptIn(junkIn, junkOut[1], j)

\* "Obs.1" is kept beside a dropped "Unnamed: 7"
C9_Witness ==
    /\ junkOut # <<>>
    /\ junkIn.cols = <<Ex_Unnamed7, Ex_Obs1>>
    /\ junkOut[1] = [cols |-> <<Ex_Obs1>>, rows |-> <<<<Cell2>>>>]

(************************** standardize_capex / standardize_fin *************)
StdCells == {Str(<<" ","s","o","l","1"," ">>), Str(<<"1",".","0","0","0",",","5","0">>)}
CapexLabels == {<<"U","F","V">>, <<"u","f","v">>, <<"P","o","r","t","f","o","l","i","o">>, <<"P","o","r","t","i","f","o","l","i","o">>,
                <<"V","a","l","o","r"," ","T","o","t","a","l">>, <<"V","A","L","O","R"," ","T","O","T","A","L">>, <<"O","b","s",".","1">>}
FinLabels == {<<"U","s","i","n","a">>, <<"F","i","l","i","a","l">>, <<"V","a","l","o","r"," ","d","a"," ","N","F">>, <<"v","a","l","o","r"," ","d","a"," ","n","f">>,
              <<"u","f","v","_","p","a","g">>, <<"F","o","r","n","e","c","e","d","o","r">>}
\* the one-row frames of one or two distinctly labelled columns
SmallFrames(labels) ==
    {[cols |-> <<l>>, rows |-> <<<<c>>>>] : l \in labels, c \in StdCells}
    \cup {[cols |-> <<l[1], l[2]>>, rows |-> <<<<c[1], c[2]>>>>] :
            l \in {m \in labels \X labels : m[1] # m[2]}, c \in StdCells \X StdCells}

StdInit ==
    /\ stdIn \in {[family |-> "capex", df |-> f] : f \in SmallFrames(CapexLabels)}
            \cup {[family |-> "fin", df |-> f] : f \in SmallFrames(FinLabels)}
    /\ stdOut = <<>>
    /\ NumOff /\ HdrOff /\ JunkOff /\ PctOff /\ LoadOff /\ AppOff
CallStandardize ==
    /\ stdOut = <<>>
    /\ stdOut' = <<IF stdIn.family = "capex" THEN standardize_capex(stdIn.df)
                   ELSE standardize_fin(stdIn.df)>>
    /\ UNCHANGED <<stdIn, numVars, hdrVars, junkVars, pctVars, loadVars, appVars>>
StdNext == CallStandardize
SpecStd == StdInit /\ [][StdNext]_vars

FieldMap(family) == IF family = "capex" THEN CAPEX_COL_MAP ELSE FIN_COL_MAP
\* the canonical field a raw label resolves to (the label itself when unmapped)
FieldOf(family, label) ==
    IF InMap(FieldMap(family), normalize_col(label))
    THEN MapGet(FieldMap(family), normalize_col(label)) ELSE label
Standardize(family, df) ==
    IF family = "capex" THEN standardize_capex(df) ELSE standardize_fin(df)
\* frame df without its column j
WithoutCol(df, j) == TakeCols(df, SelectSeq(Indices(Len(df.cols)), LAMBDA k : k # j))

\* C5: when two distinct raw labels of a table resolve to the same canonical
\* field, standardization completes without error and the standardized table
\* has exactly one column of that name, holding the values of the later column.
C5_LaterColumnWins ==
    stdOut # <<>> =>
        \A j, k \in DOMAIN stdIn.df.cols :
            (/\ j < k
             /\ InMap(FieldMap(stdIn.family), normalize_col(stdIn.df.cols[k]))
             /\ FieldOf(stdIn.family, stdIn.df.cols[j]) = FieldOf(stdIn.family, stdIn.df.cols[k]))
            => LET field == FieldOf(stdIn.family, stdIn.df.cols[k])
                   alone == Standardize(stdIn.family, WithoutCol(stdIn.df, j))
               IN  /\ ~stdOut[1].raised
                   /\ Cardinality(Positions(stdOut[1].df, field)) = 1
                   /\ Series(stdOut[1].df, field) = Series(alone.df, field)

(************************** gauge and detail table **************************)
PctValues == {Num(FALSE, 5, 1), Num(FALSE, 15, 1), Num(FALSE, 16, 1), Num(FALSE, 80, 0), NaN}
PctInit ==
    /\ pctIn \in UNION {[1..k -> PctValues] : k \in 0..MaxColLen}
    /\ pctOut = <<>>
    /\ NumOff /\ HdrOff /\ JunkOff /\ StdOff /\ LoadOff /\ AppOff
\* the gauge value and the detail table's column, from one filtered frame
RenderAvanco ==
    /\ pctOut = <<>>
    /\ pctOut' = <<[gauge |-> pct_from_series(pctIn), table |-> table_avanco(pctIn)]>>
    /\ UNCHANGED <<pctIn, numVars, hdrVars, junkVars, stdVars, loadVars, appVars>>
PctNext == RenderAvanco
SpecPct == PctInit /\ [][PctNext]_vars

\* C10: the fraction-or-percentage decision is taken once for the column: its
\* values are multiplied by 100 exactly when the column's maximum is <= 1.5,
\* for the gauge and for every row of the detail table alike.
C10_OneDecisionPerColumn ==
    (pctOut # <<>> /\ \E r \in DOMAIN pctIn : pctIn[r] # NaN) =>
        LET present == SelectSeq(pctIn, NotNaN)
            fractional == \A r \in DOMAIN present : LessEq(present[r], Threshold)
        IN  /\ pctOut[1].gauge = Quotient(IF fractional THEN Times100(SumSeq(present))
                                          ELSE SumSeq(present), Len(present))
            /\ \A r \in DOMAIN pctIn :
                 pctOut[1].table[r] = IF fractional /\ pctIn[r] # NaN
                                      THEN Times100(pctIn[r]) ELSE pctIn[r]


(************************** load_data, step by step *************************)
Unreadable == OnDisk(FALSE, <<>>, FALSE)
\* a title row, the header, one record
CapexValid == OnDisk(TRUE, << <<<<"R","e","l","a","t","o","r","i","o">>>>,
                              <<<<"U","F","V">>, <<"V","a","l","o","r"," ","T","o","t","a","l">>>>,
                              <<<<" ","s","o","l","1"," ">>, <<"1",".","0","0","0",",","5","0">>>> >>, FALSE)
CapexHeaderOnly == OnDisk(TRUE, << <<<<"U","F","V">>, <<"V","a","l","o","r"," ","T","o","t","a","l">>>> >>, FALSE)
\* two labels that both resolve to ufv
CapexTwoUfv == OnDisk(TRUE, << <<<<"u","f","v">>, <<"U","F","V">>>>,
                               <<<<" ","s","o","l","1"," ">>, <<"x">>>> >>, FALSE)
\* two labels that both resolve to portfolio
CapexTwoPortfolio == OnDisk(TRUE, << <<<<"P","o","r","t","f","o","l","i","o">>, <<"P","o","r","t","i","f","o","l","i","o">>>>,
                                     <<<<"a">>, <<"b">>>> >>, FALSE)
CapexFiles == {Missing, Unreadable, CapexValid, CapexHeaderOnly, CapexTwoUfv, CapexTwoPortfolio}

FinValid == OnDisk(TRUE, << <<<<"U","s","i","n","a">>, <<"V","a","l","o","r"," ","d","a"," ","N","F">>>>,
                            <<<<" ","s","o","l","1"," ">>, <<"1","0",",","5">>>> >>, FALSE)
\* two labels that both end up named ufv_pag
FinTwoUfv == OnDisk(TRUE, << <<<<"u","f","v","_","p","a","g">>, <<"U","s","i","n","a">>>>,
                             <<<<" ","s","o","l","1"," ">>, <<" ","s","o","l","2"," ">>>> >>, FALSE)
\* the reader fails on a malformed line
FinMalformed == OnDisk(TRUE, << <<<<"U","s","i","n","a">>>> >>, TRUE)
FinFiles == {Missing, FinMalformed, FinValid, FinTwoUfv}

FluxoValid == OnDisk(TRUE, << <<<<"P","r","o","j","e","t","o">>, <<"M","e","s","1">>, <<"M","e","s","2">>>>,
                              <<<<"X">>, <<"1","0","0">>, <<"2","0","0",",","5","0">>>> >>, FALSE)
FluxoNoMonths == OnDisk(TRUE, << <<<<"P","r","o","j","e","t","o">>>>, <<<<"X">>>> >>, FALSE)
FluxoFiles == {Missing, Unreadable, FluxoValid, FluxoNoMonths}

LoadInit ==
    /\ disk \in [ciclo2 : CapexFiles, ciclo3 : CapexFiles, geral : FinFiles, fluxo : FluxoFiles]
    /\ lpc = "ciclo2" /\ errors = <<>> /\ failed = {}
    /\ df_c2 = EmptyFrame /\ df_c3 = EmptyFrame /\ df_capex = EmptyFrame
    /\ df_fin = EmptyFrame /\ df_fluxo = EmptyFrame
    /\ NumOff /\ HdrOff /\ JunkOff /\ StdOff /\ PctOff /\ AppOff

Failed(src, r) == IF r.raised THEN failed \cup {src} ELSE failed

\* lines 196-204
StepCiclo2 ==
    /\ lpc = "ciclo2"
    /\ \E r \in {LoadCycle(disk.ciclo2, "ciclo2", Cycle2)} :
           df_c2' = r.df /\ errors' = errors \o r.errors /\ failed' = Failed("ciclo2", r)
    /\ lpc' = "ciclo3"
    /\ UNCHANGED <<disk, df_c3, df_capex, df_fin, df_fluxo>>
    /\ UNCHANGED <<numVars, hdrVars, junkVars, stdVars, pctVars, appVars>>
\* lines 206-214
StepCiclo3 ==
    /\ lpc = "ciclo3"
    /\ \E r \in {LoadCycle(disk.ciclo3, "ciclo3", Cycle3)} :
           df_c3' = r.df /\ errors' = errors \o r.errors /\ failed' = Failed("ciclo3", r)
    /\ lpc' = "concat"
    /\ UNCHANGED <<disk, df_c2, df_capex, df_fin, df_fluxo>>
    /\ UNCHANGED <<numVars, hdrVars, junkVars, stdVars, pctVars, appVars>>
\* line 216: an exception here is outside every try block
StepConcat ==
    /\ lpc = "concat"
    /\ \E r \in {AssembleCapex(df_c2, df_c3)} :
           IF r.raised THEN lpc' = "crashed" /\ UNCHANGED df_capex
           ELSE lpc' = "geral" /\ df_capex' = r.df
    /\ UNCHANGED <<disk, df_c2, df_c3, df_fin, df_fluxo, errors, failed>>
    /\ UNCHANGED <<numVars, hdrVars, junkVars, stdVars, pctVars, appVars>>
\* lines 219-225
StepGeral ==
    /\ lpc = "geral"
    /\ \E r \in {LoadGeral(disk.geral)} :
           df_fin' = r.df /\ errors' = errors \o r.errors /\ failed' = Failed("geral", r)
    /\ lpc' = "fluxo"
    /\ UNCHANGED <<disk, df_c2, df_c3, df_capex, df_fluxo>>
    /\ UNCHANGED <<numVars, hdrVars, junkVars, stdVars, pctVars, appVars>>
\* lines 228-236
StepFluxo ==
    /\ lpc = "fluxo"
    /\ \E r \in {LoadFluxo(disk.fluxo)} :
           df_fluxo' = r.df /\ errors' = errors \o r.errors /\ failed' = Failed("fluxo", r)
    /\ lpc' = "returned"
    /\ UNCHANGED <<disk, df_c2, df_c3, df_capex, df_fin>>
    /\ UNCHANGED <<numVars, hdrVars, junkVars, stdVars, pctVars, appVars>>

LoadNext == StepCiclo2 \/ StepCiclo3 \/ StepConcat \/ StepGeral \/ StepFluxo
SpecLoad == LoadInit /\ [][LoadNext]_vars

\* the table load_data holds for a source when it returns
TableOf(src) ==
    IF src = "ciclo2" THEN df_c2 ELSE IF src = "ciclo3" THEN df_c3
    ELSE IF src = "geral" THEN df_fin ELSE df_fluxo
Names(src) == {k \in DOMAIN errors : errors[k].file = DATA_FILES[src]}

\* C1: when a step of a source's load fails, the returned error list names that
\* source and its table is empty; with both capex files loaded and only the
\* disbursements load failing, the capex dataset is non-empty, the disbursement
\* dataset is empty and the error list holds exactly one message, on Geral.csv.
C1_FailedSourceIsEmpty ==
    lpc = "returned" =>
        /\ \A src \in failed : Names(src) # {} /\ IsEmpty(TableOf(src))
        /\ (failed = {"geral"} /\ ~IsEmpty(df_c2) /\ ~IsEmpty(df_c3))
           => (/\ ~IsEmpty(df_capex) /\ IsEmpty(df_fin)
               /\ Len(errors) = 1 /\ errors[1].file = DATA_FILES["geral"])

\* C2: for each of the four files, when it does not exist load_data returns
\* with that source's table empty and a message recording the file's absence.
C2_AbsenceIsRecorded ==
    lpc = "returned" =>
        \A src \in Sources :
            ~disk[src].exists =>
                /\ IsEmpty(TableOf(src))
                /\ \E k \in Names(src) : errors[k] = NotFound(src)

IsNormalizedId(cell) == cell = NaN \/ (IsStr(cell) /\ cell.str = Upper(Strip(cell.str)))
\* C6: in every returned Dataset, every capex row's ufv and every disbursement
\* row's ufv_pag, where the column exists, is upper-cased and trimmed.
C6_IdentifiersNormalized ==
    lpc = "returned" =>
        /\ \A j \in Positions(df_capex, L_ufv) : \A r \in DOMAIN df_capex.rows :
               IsNormalizedId(df_capex.rows[r][j])
        /\ \A j \in Positions(df_fin, L_ufv_pag) : \A r \in DOMAIN df_fin.rows :
               IsNormalizedId(df_fin.rows[r][j])


(************************** the render script *******************************)
\* The script runs top to bottom on every rerun (a widget interaction or a
\* browser refresh); the source files change on disk at any moment.
AppCapexFiles == {Missing, Unreadable, CapexHeaderOnly, CapexValid}
AppFinFiles == {Missing, FinValid}
AppFluxoFiles == {Missing, FluxoValid}
AppFiles(src) ==
    IF src \in {"ciclo2", "ciclo3"} THEN AppCapexFiles
    ELSE IF src = "geral" THEN AppFinFiles ELSE AppFluxoFiles
\* the file system load_data sees
FileSystem == [src \in Sources |-> files[src].file]
Todas == Str(<<"T","o","d","a","s">>)

Init ==
    /\ \E fs \in [ciclo2 : AppCapexFiles, ciclo3 : AppCapexFiles,
                  geral : AppFinFiles, fluxo : AppFluxoFiles] :
           files = [src \in Sources |-> [file |-> fs[src], mtime |-> 0]]
    /\ clock = 0 /\ cache = <<>>
    /\ pc = "idle" /\ shown = <<>> /\ filtro = <<>> /\ steps = <<>>
    /\ NumOff /\ HdrOff /\ JunkOff /\ StdOff /\ PctOff /\ LoadOff

Others == <<numVars, hdrVars, junkVars, stdVars, pctVars, loadVars>>

\* a source file is written, replaced or deleted
ModifyFile ==
    /\ clock < MaxClock
    /\ \E src \in Sources : \E f \in AppFiles(src) :
           files' = [files EXCEPT ![src] = [file |-> f, mtime |-> clock + 1]]
    /\ clock' = clock + 1
    /\ UNCHANGED <<cache, pc, shown, filtro, steps, Others>>

\* a rerun begins: lines 239-243
StartRender ==
    /\ pc \in {"idle", "done", "waiting", "crashed"}
    /\ pc' = "load" /\ shown' = <<>> /\ filtro' = <<>> /\ steps' = <<"title">>
    /\ UNCHANGED <<files, clock, cache, Others>>

\* @st.cache_data on a function without arguments: one entry, looked up by
\* the function alone, filled by the first call that returns
CacheHit == cache # <<>>

\* lines 245-246
CallLoadData ==
    /\ pc = "load"
    /\ IF CacheHit
       THEN /\ shown' = <<cache[1].value>> /\ pc' = "errors"
            /\ steps' = Append(steps, "cached")
            /\ UNCHANGED cache
       ELSE \E r \in {load_data(FileSystem)} :
              IF r.raised
              THEN pc' = "crashed" /\ steps' = Append(steps, "load_data") /\ UNCHANGED <<cache, shown>>
              ELSE /\ cache' = <<[value |-> r, at |-> clock]>>
                   /\ shown' = <<r>> /\ pc' = "errors"
                   /\ steps' = Append(steps, "load_data")
    /\ UNCHANGED <<files, clock, filtro, Others>>

\* lines 248-251
ShowErrors ==
    /\ pc = "errors"
    /\ pc' = "gate"
    /\ steps' = IF shown[1].errors # <<>> THEN Append(steps, "warning") ELSE steps
    /\ UNCHANGED <<files, clock, cache, shown, filtro, Others>>

\* line 253 with its condition always false
GateClosedNever(dataset) == FALSE
\* line 253
GateClosed(dataset) == IsEmpty(dataset.df_capex)

\* lines 253-255
Gate ==
    /\ pc = "gate"
    /\ IF GateClosed(shown[1])
       THEN pc' = "waiting" /\ steps' = Append(steps, "waiting")     \* st.info, st.stop()
       ELSE pc' = "filter" /\ UNCHANGED steps
    /\ UNCHANGED <<files, clock, cache, shown, filtro, Others>>

\* Series.dropna().unique() of a column, as a set
UniqueValues(df, label) ==
    IF HasCol(df, label) THEN {c \in Range(Series(df, label)) : c # NaN} ELSE {}
\* lines 259-262
lista_ufvs(dataset) ==
    {Todas} \cup UniqueValues(dataset.df_capex, L_ufv)
            \cup (IF ~IsEmpty(dataset.df_fin) THEN UniqueValues(dataset.df_fin, L_ufv_pag) ELSE {})

\* lines 257-271: df_capex["ufv"] raises KeyError when the column is absent
Filter ==
    /\ pc = "filter"
    /\ \E choice \in lista_ufvs(shown[1]) :
           /\ filtro' = <<choice>>
           /\ pc' = IF choice # Todas /\ ~HasCol(shown[1].df_capex, L_ufv)
                    THEN "crashed" ELSE "kpis"
    /\ steps' = Append(steps, "filter")
    /\ UNCHANGED <<files, clock, cache, shown, Others>>

\* lines 273-283
KPIs ==
    /\ pc = "kpis"
    /\ pc' = "charts" /\ steps' = Append(steps, "kpis")
    /\ UNCHANGED <<files, clock, cache, shown, filtro, Others>>
\* lines 287-312
Charts ==
    /\ pc = "charts"
    /\ pc' = "table" /\ steps' = Append(steps, "charts")
    /\ UNCHANGED <<files, clock, cache, shown, filtro, Others>>
\* lines 316-358
Table ==
    /\ pc = "table"
    /\ pc' = "fluxo" /\ steps' = Append(steps, "table")
    /\ UNCHANGED <<files, clock, cache, shown, filtro, Others>>
\* lines 360-366
FluxoChart ==
    /\ pc = "fluxo"
    /\ pc' = "done"
    /\ steps' = IF ~IsEmpty(shown[1].df_fluxo) /\ filtro = <<Todas>>
                THEN Append(steps, "fluxo") ELSE steps
    /\ UNCHANGED <<files, clock, cache, shown, filtro, Others>>

Next ==
    \/ ModifyFile \/ StartRender \/ CallLoadData \/ ShowErrors \/ Gate
    \/ Filter \/ KPIs \/ Charts \/ Table \/ FluxoChart
Spec == Init /\ [][Next]_vars

BeyondGate == {"filter", "kpis", "charts", "table", "fluxo"}
\* C3: in every render, when the capex dataset got from load_data is empty the
\* render reaches the "waiting for data" state and stops there: none of the
\* filter, KPI, chart and table steps is executed in that render; a render goes
\* beyond the gate only with a non-empty capex dataset.
C3_HardGate ==
    /\ (shown # <<>> /\ IsEmpty(shown[1].df_capex))
        => /\ pc \in {"errors", "gate", "waiting"}
           /\ Range(steps) \cap BeyondGate = {}
    /\ (pc \in {"filter", "kpis", "charts", "table", "fluxo", "done"} \/ Range(steps) \cap BeyondGate # {})
        => (shown # <<>> /\ ~IsEmpty(shown[1].df_capex))
    /\ pc = "waiting" => (steps[Len(steps)] = "waiting" /\ IsEmpty(shown[1].df_capex))

\* a render stopped at the gate, both cycle files being unusable, after the
\* load errors were listed
C3_Witness ==
    /\ pc = "waiting"
    /\ IsEmpty(shown[1].df_capex)
    /\ "warning" \in Range(steps)
    /\ files["ciclo2"].file = Unreadable /\ files["ciclo3"].file = CapexHeaderOnly

\* C4: a render that follows a modification of a source file (the file's
\* modification time is newer than the one the cached snapshot was built from)
\* re-runs load_data and works on a Dataset built from the current files.
C4_ReloadsModifiedFiles ==
    [][(pc = "load" /\ pc' = "errors"
        /\ \E src \in Sources : cache # <<>> /\ files[src].file.exists
                                /\ files[src].mtime > cache[1].at)
       => (/\ steps' = Append(steps, "load_data")
           /\ shown' = <<load_data(FileSystem)>>)]_vars

=============================================================================
